---- MODULE Spec2Model ----
(***************************************************************************)
(* A model of jpl3: the recorder that wraps a matplotlib figure            *)
(* (core.DecoFigure), keeps an identity -> path registry (artist_map),     *)
(* intercepts the operations of every registered artist, serialises the   *)
(* arguments of each call to text (_emulate_args) and appends the command  *)
(* to the session log (JPLSession), plus the Project layer of              *)
(* jpl3/__init__.py.                                                       *)
(*                                                                         *)
(* Python objects are numbered: a node's number stands for id(obj).  A     *)
(* number is never given to two objects, i.e. the model does not follow    *)
(* CPython's reuse of the id of a collected object.                        *)
(* Text the program builds is built here as TLA+ strings, character        *)
(* sequences where the program inspects characters (repr of str, the       *)
(* exclusion regex).                                                       *)
(***************************************************************************)
EXTENDS Integers, Sequences, FiniteSets, TLC

VARIABLES
    kind,        \* node -> class name of the object (type(obj).__name__)
    lists,       \* node -> [relation name -> sequence of nodes]: the live child lists
    figures,     \* the DecoFigure objects constructed so far (a set of nodes)
    fig_id,      \* DecoFigure -> self._fig_id
    call_from,   \* DecoFigure -> self.call_from ("interactive" or the script file)
    artist_map,  \* DecoFigure -> (id(obj) -> header): self.artist_map
    layers,      \* node -> number of interception shims stacked on its operations
    decorated,   \* nodes that carry the _deco_decorated marker
    deco_by,     \* node -> the DecoFigure whose closure its shims hold (0: none)
    session,     \* core._session, the process-wide JPLSession (exists = FALSE: None)
    projects,    \* every Project constructed so far, by position of creation (1..)
    active,      \* __init__._active_projects: sequence of positions into projects
    default_project, \* __init__._default_project (0: None)
    setup_logs,  \* per Project position: session.setup_logs, the setup section's commands
    blobs,       \* per Project position: session.blobs, the names of the stored payloads
    exports,     \* every .jem3 file written so far, newest last
    launches,    \* every start of the viewer (subprocess.Popen) so far
    warns,       \* number of warnings.warn calls so far
    nextSid,     \* history: number the next JPLSession object gets
    issued,      \* history: every key get_new_filename returned, with its session
    ops,         \* history: number of calls made from outside so far
    born,        \* history: node -> how the object came to exist
    rewraps,     \* history: node -> direct calls of _decorate_methods on it
    last         \* history: what the most recent step did

vars == <<kind, lists, figures, fig_id, call_from, artist_map, layers, decorated,
          deco_by, session, projects, active, default_project, warns, nextSid,
          issued, ops, born, rewraps, last, setup_logs, blobs, exports, launches>>

\* what only the Project layer of __init__.py writes
shelf == <<setup_logs, blobs, exports, launches>>

-----------------------------------------------------------------------------
(* Text *)

RECURSIVE Join(_)
\* "".join(parts)
Join(parts) == IF parts = <<>> THEN "" ELSE Head(parts) \o Join(Tail(parts))

RECURSIVE JoinSep(_, _)
\* sep.join(parts)
JoinSep(parts, sep) ==
    IF parts = <<>> THEN ""
    ELSE IF Len(parts) = 1 THEN Head(parts)
    ELSE Head(parts) \o sep \o JoinSep(Tail(parts), sep)

HasChar(cs, c) == \E i \in 1..Len(cs) : cs[i] = c

\* str.startswith on character sequences
StartsWith(cs, prefix) ==
    /\ Len(cs) >= Len(prefix)
    /\ \A i \in 1..Len(prefix) : cs[i] = prefix[i]

\* repr(str): single quotes unless the text holds ' and no "; the chosen quote,
\* the backslash and the newline are escaped.
StrQuote(cs) == IF HasChar(cs, "'") /\ ~HasChar(cs, "\"") THEN "\"" ELSE "'"

StrEscape(c, q) ==
    IF c = "\\" THEN "\\\\"
    ELSE IF c = "\n" THEN "\\n"
    ELSE IF c = q THEN "\\" \o q
    ELSE c

StrRepr(cs) ==
    LET q == StrQuote(cs)
    IN q \o Join([i \in 1..Len(cs) |-> StrEscape(cs[i], q)]) \o q

\* str(float) of a float given in hundredths: 5 is 0.05, 50 is 0.5, 100 is 1.0
FloatStr(h) ==
    LET a == IF h < 0 THEN -h ELSE h
        whole == a \div 100
        frac == a % 100
        digits == IF frac = 0 THEN "0"
                  ELSE IF frac % 10 = 0 THEN ToString(frac \div 10)
                  ELSE IF frac < 10 THEN "0" \o ToString(frac)
                  ELSE ToString(frac)
    IN (IF h < 0 THEN "-" ELSE "") \o ToString(whole) \o "." \o digits

-----------------------------------------------------------------------------
(* Argument values.  Every value is a record of one shape:                  *)
(*   cls   type(x).__name__                                                *)
(*   num   the integer it carries: an int, a float in hundredths, a bool   *)
(*         as 0/1, a day of January 2025 for dates, id(x) for an artist    *)
(*   chars the characters of a str, the name of a Series, the text a       *)
(*         user-defined __repr__ returns                                   *)
(*   items the elements of a list or tuple, the key/value entries of a     *)
(*         dict, in order                                                  *)
(*   flag  what else the dispatch reads: "artist" (a matplotlib Artist),   *)
(*         the dtype family of an array or Series, how repr(x) behaves     *)

MkVal(cls, num, chars, items, flag) ==
    [cls |-> cls, num |-> num, chars |-> chars, items |-> items, flag |-> flag]

IntV(n) == MkVal("int", n, <<>>, <<>>, "")
FloatV(h) == MkVal("float", h, <<>>, <<>>, "")
BoolV(b) == MkVal("bool", IF b THEN 1 ELSE 0, <<>>, <<>>, "")
NoneV == MkVal("NoneType", 0, <<>>, <<>>, "")
StrV(cs) == MkVal("str", 0, cs, <<>>, "")
ListV(items) == MkVal("list", 0, <<>>, items, "")
TupleV(items) == MkVal("tuple", 0, <<>>, items, "")
KV(k, v) == MkVal("item", 0, <<>>, <<k, v>>, "")
DictV(entries) == MkVal("dict", 0, <<>>, entries, "")
ArrayV(dtype) == MkVal("ndarray", 0, <<>>, <<>>, dtype)
MaskedV(dtype) == MkVal("MaskedArray", 0, <<>>, <<>>, dtype)
SeriesV(name, dtype) == MkVal("Series", 0, name, <<>>, dtype)
FrameV == MkVal("DataFrame", 0, <<>>, <<>>, "")
DatetimeIndexV == MkVal("DatetimeIndex", 0, <<>>, <<>>, "")
CategoricalV == MkVal("Categorical", 0, <<>>, <<>>, "")
DateV(d) == MkVal("date", d, <<>>, <<>>, "")
DatetimeV(d) == MkVal("datetime", d, <<>>, <<>>, "")
TimestampV(d) == MkVal("Timestamp", d, <<>>, <<>>, "")
CustomV(cls, addr, text, how) == MkVal(cls, addr, text, <<>>, how)
ArtistV(cls, n) == MkVal(cls, n, <<>>, <<>>, "artist")

\* isinstance(x, T): the class of x is T or one of T's subclasses.  MaskedArray
\* derives from ndarray, pandas.Timestamp from datetime.datetime, and
\* datetime.datetime from datetime.date.
Subclasses(T) ==
    CASE T = "ndarray" -> {"ndarray", "MaskedArray"}
      [] T = "date" -> {"date", "datetime", "Timestamp"}
      [] T = "datetime" -> {"datetime", "Timestamp"}
      [] T = "Categorical" -> {"Categorical", "CategoricalIndex"}
      [] OTHER -> {T}

IsInstance(x, T) == x.cls \in Subclasses(T)

-----------------------------------------------------------------------------
(* Session *)

NoSession ==
    [exists |-> FALSE, sid |-> 0, logs |-> <<>>, data_counter |-> 0, files |-> {},
     dir |-> FALSE, cleaned |-> FALSE]

\* JPLSession.__init__: an empty log, counter 0, a fresh temporary directory
\* (dir: temp_dir is on disk; files: what lies in clipboard_dir).  cleaned is
\* history: cleanup() was called on the object.
NewSession(sid) ==
    [exists |-> TRUE, sid |-> sid, logs |-> <<>>, data_counter |-> 0, files |-> {},
     dir |-> TRUE, cleaned |-> FALSE]

\* a cleanup whose rmtree is outside the try block
CleanupUnguarded(sess, rmfails) ==
    [sess |-> [sess EXCEPT !.dir = FALSE, !.files = {}, !.cleaned = TRUE],
     warned |-> FALSE,
     exc |-> ~sess.dir \/ rmfails]

\* JPLSession.cleanup: shutil.rmtree(self.temp_dir) inside try/except Exception;
\* rmtree raises when the directory is gone already or cannot be removed
\* (rmfails), which is answered with a warning.  Logs and counter stay.
Cleanup(sess, rmfails) ==
    [sess |-> [sess EXCEPT !.dir = IF sess.dir /\ ~rmfails THEN FALSE ELSE @,
                           !.files = IF sess.dir /\ ~rmfails THEN {} ELSE @,
                           !.cleaned = TRUE],
     warned |-> ~sess.dir \/ rmfails,
     exc |-> FALSE]

\* An env is what a call threads through the serializer: the process-wide
\* session, the warnings raised and the two histories that go with them.
Env(s, w, n, i) == [sess |-> s, warns |-> w, nextSid |-> n, issued |-> i]

\* get_session(): the singleton, made on first use
GetSession(env) ==
    IF env.sess.exists THEN env
    ELSE [env EXCEPT !.sess = NewSession(env.nextSid), !.nextSid = @ + 1]

\* a log that puts the newest command first
AddLogFront(sess, entry) == [sess EXCEPT !.logs = <<entry>> \o @]

\* JPLSession.add_log: self.logs.append(command)
AddLog(sess, entry) == [sess EXCEPT !.logs = Append(@, entry)]

\* a counter that is read but not advanced
GetNewFilenameStuck(env, ext) ==
    LET name == "data_" \o ToString(env.sess.data_counter) \o ext
    IN [name |-> name,
        env |-> [env EXCEPT
                   !.issued = Append(@, [sid |-> env.sess.sid,
                                         counter |-> env.sess.data_counter,
                                         key |-> name])]]

\* JPLSession.get_new_filename: data_<counter><ext>, then counter += 1
GetNewFilename(env, ext) ==
    LET name == "data_" \o ToString(env.sess.data_counter) \o ext
    IN [name |-> name,
        env |-> [env EXCEPT
                   !.sess.data_counter = @ + 1,
                   !.issued = Append(@, [sid |-> env.sess.sid,
                                         counter |-> env.sess.data_counter,
                                         key |-> name])]]

\* np.save / to_csv into session.get_filepath(name): the file now exists
StoreFile(env, name) == [env EXCEPT !.sess.files = @ \cup {name}]

-----------------------------------------------------------------------------
(* Serializer: DecoFigure._emulate_args and _save_emulate_command *)

NoHeader == ""

\* DecoFigure._header: self.artist_map.get(id(obj), None).  Only artists have
\* their id in a registry; callers test the result for truth.
Header(map, x) ==
    IF x.flag = "artist" /\ x.num \in DOMAIN map THEN map[x.num] ELSE NoHeader

\* The text the except-branch answers with
Placeholder(x) == "\"<unserializable object: " \o x.cls \o ">\""

Ok(text, env) == [exc |-> FALSE, text |-> text, env |-> env]
Raised(env) == [exc |-> TRUE, text |-> "", env |-> env]

Clip(name) == "clipboard(\"" \o name \o "\")"

DayText(d) == IF d < 10 THEN "0" \o ToString(d) ELSE ToString(d)

\* repr(x) of the values that reach the fallback or the constructor rules
ReprOf(x) ==
    CASE x.cls = "date" -> "datetime.date(2025, 1, " \o ToString(x.num) \o ")"
      [] x.cls = "datetime" ->
            "datetime.datetime(2025, 1, " \o ToString(x.num) \o ", 0, 0)"
      [] x.cls = "Timestamp" ->
            "Timestamp('2025-01-" \o DayText(x.num) \o " 00:00:00')"
      [] x.flag = "artist" ->
            "<matplotlib." \o x.cls \o " object at 0x" \o ToString(x.num) \o ">"
      [] x.flag = "repr_custom" -> Join(x.chars)
      [] OTHER -> "<__main__." \o x.cls \o " object at 0x" \o ToString(x.num) \o ">"

\* Timestamp.isoformat()
IsoFormat(x) == "2025-01-" \o DayText(x.num) \o "T00:00:00"

\* str(x) of int, float, bool and None
BasicStr(x) ==
    CASE x.cls = "int" -> ToString(x.num)
      [] x.cls = "float" -> FloatStr(x.num)
      [] x.cls = "bool" -> (IF x.num = 1 THEN "True" ELSE "False")
      [] OTHER -> "None"

\* a masked array stored as a dense array would be: one name, one file
SaveMaskedDense(x, env) ==
    LET f == GetNewFilename(env, ".npy")
    IN IF x.flag = "object" THEN Raised(f.env)
       ELSE Ok("np.load(" \o Clip(f.name) \o ")", StoreFile(f.env, f.name))

\* rule 2, MaskedArray: two names, then data and mask saved; np.save with
\* allow_pickle=False raises on an object array
SaveMasked(x, env) ==
    LET d == GetNewFilename(env, ".npy")
        m == GetNewFilename(d.env, ".npy")
    IN IF x.flag = "object" THEN Raised(m.env)
       ELSE Ok("np.ma.MaskedArray(data=np.load(" \o Clip(d.name)
                   \o "), mask=np.load(" \o Clip(m.name) \o "))",
               StoreFile(StoreFile(m.env, d.name), m.name))

\* rule 2, ndarray
SaveArray(x, env) ==
    LET f == GetNewFilename(env, ".npy")
    IN IF x.flag = "object" THEN Raised(f.env)
       ELSE Ok("np.load(" \o Clip(f.name) \o ")", StoreFile(f.env, f.name))

\* rule 2, Series: the loader text depends on the dtype
SaveSeries(x, env) ==
    LET f == GetNewFilename(env, ".csv")
        read == "pd.read_csv(" \o Clip(f.name) \o ", index_col=0, header=0"
        name == IF x.chars = <<>> THEN "None" ELSE StrRepr(x.chars)
        text == IF x.flag = "datetime"
                    THEN read \o ", parse_dates=[" \o name \o "]).squeeze(\"columns\")"
                ELSE IF x.flag = "category"
                    THEN read \o ").squeeze(\"columns\").astype(\"category\")"
                ELSE read \o ").squeeze(\"columns\")"
    IN Ok(text, StoreFile(f.env, f.name))

\* rule 2, DataFrame, DatetimeIndex, Categorical / CategoricalIndex
SaveTable(x, env) ==
    LET f == GetNewFilename(env, ".csv")
        text == IF IsInstance(x, "DataFrame")
                    THEN "pd.read_csv(" \o Clip(f.name) \o ", index_col=0)"
                ELSE IF IsInstance(x, "DatetimeIndex")
                    THEN "pd.read_csv(" \o Clip(f.name)
                         \o ", index_col=0, header=None, parse_dates=True).index"
                ELSE "pd.read_csv(" \o Clip(f.name)
                         \o ", header=0).squeeze(\"columns\").astype(\"category\")"
    IN Ok(text, StoreFile(f.env, f.name))

\* a last rule that gives every unrecognized value up
FallbackGivesUp(x, env) == Raised(env)

\* rule 6: return repr(x); a __repr__ that raises raises here
Fallback(x, env) ==
    IF x.flag = "repr_raises" THEN Raised(env) ELSE Ok(ReprOf(x), env)

\* a dispatch without the try block
CatchNothing(x, r) == r

\* The except-branch of _emulate_args: warn and answer with the placeholder
CatchAll(x, r) ==
    IF r.exc
        THEN [exc |-> FALSE, text |-> Placeholder(x),
              env |-> [r.env EXCEPT !.warns = @ + 1]]
        ELSE r

RECURSIVE EmulateArgs(_, _, _)
RECURSIVE EmulateItems(_, _, _)
RECURSIVE Dispatch(_, _, _)

\* the texts of the items serialized so far, then those of the rest
ConsTexts(text, t) == [exc |-> t.exc, texts |-> <<text>> \o t.texts, env |-> t.env]

\* the rest of the items, after the first was serialized to h; an exception
\* leaving an item ends the iteration
RestItems(map, items, h) ==
    IF h.exc THEN [exc |-> TRUE, texts |-> <<>>, env |-> h.env]
    ELSE ConsTexts(h.text, EmulateItems(map, Tail(items), h.env))

\* self._emulate_args(item) for item in items, left to right
EmulateItems(map, items, env) ==
    IF items = <<>> THEN [exc |-> FALSE, texts |-> <<>>, env |-> env]
    ELSE RestItems(map, items, EmulateArgs(map, Head(items), env))

\* f"[{', '.join(...)}]"
ListText(r) ==
    IF r.exc THEN Raised(r.env) ELSE Ok("[" \o JoinSep(r.texts, ", ") \o "]", r.env)

\* the tuple text: a one-element tuple keeps a trailing comma
TupleText(x, r) ==
    IF r.exc THEN Raised(r.env)
    ELSE Ok("(" \o JoinSep(r.texts, ", ") \o (IF Len(x.items) = 1 THEN "," ELSE "") \o ")",
            r.env)

\* keys and values of a dict in the order they are serialized: k1, v1, k2, v2
DictItems(x) == [i \in 1..(2 * Len(x.items)) |-> x.items[(i + 1) \div 2].items[2 - (i % 2)]]

\* f"{{{', '.join(f'{k}: {v}' ...)}}}"
DictText(x, r) ==
    IF r.exc THEN Raised(r.env)
    ELSE Ok("{" \o JoinSep([i \in 1..Len(x.items) |->
                              r.texts[2 * i - 1] \o ": " \o r.texts[2 * i]], ", ") \o "}",
            r.env)

\* The body of the try block: first match wins
Dispatch(map, x, env) ==
    IF IsInstance(x, "MaskedArray") THEN SaveMasked(x, env)
    ELSE IF IsInstance(x, "ndarray") THEN SaveArray(x, env)
    ELSE IF IsInstance(x, "Series") THEN SaveSeries(x, env)
    ELSE IF IsInstance(x, "DataFrame") \/ IsInstance(x, "DatetimeIndex")
            \/ IsInstance(x, "Categorical") THEN SaveTable(x, env)
    ELSE IF x.cls \in {"int", "float", "bool", "NoneType"} THEN Ok(BasicStr(x), env)
    ELSE IF x.cls = "str" THEN Ok(StrRepr(x.chars), env)
    ELSE IF IsInstance(x, "datetime") THEN Ok(ReprOf(x), env)
    ELSE IF IsInstance(x, "date") THEN Ok(ReprOf(x), env)
    ELSE IF IsInstance(x, "Timestamp")
        THEN Ok("pd.Timestamp(\"" \o IsoFormat(x) \o "\")", env)
    ELSE IF x.cls = "list" THEN ListText(EmulateItems(map, x.items, env))
    ELSE IF x.cls = "tuple" THEN TupleText(x, EmulateItems(map, x.items, env))
    ELSE IF x.cls = "dict" THEN DictText(x, EmulateItems(map, DictItems(x), env))
    ELSE Fallback(x, env)

\* after session = get_session(): the registry lookup, then the dispatch
\* inside try/except Exception
Serialize(map, x, env) ==
    IF Header(map, x) # NoHeader THEN Ok(Header(map, x), env)
    ELSE CatchAll(x, Dispatch(map, x, env))

\* DecoFigure._emulate_args
EmulateArgs(map, x, env) == Serialize(map, x, GetSession(env))

\* the values of the keyword arguments, in call order
KwValues(kwargs) == [i \in 1..Len(kwargs) |-> kwargs[i].v]

\* keywords written without the blanks
KwTextsTight(kwargs, texts) == [i \in 1..Len(texts) |-> Join(kwargs[i].k) \o "=" \o texts[i]]

\* f"{k} = {self._emulate_args(v)}"
KwTexts(kwargs, texts) == [i \in 1..Len(texts) |-> Join(kwargs[i].k) \o " = " \o texts[i]]

\* f"{function_name}({','.join(str_args)})"
CommandText(function_name, kwargs, texts, k) ==
    IF k.exc THEN Raised(k.env)
    ELSE Ok(function_name \o "(" \o JoinSep(texts \o KwTexts(kwargs, k.texts), ",") \o ")",
            k.env)

\* the second loop of _save_emulate_command, after the positional arguments
\* were serialized to a
CommandAfterArgs(map, function_name, kwargs, a) ==
    IF a.exc THEN Raised(a.env)
    ELSE CommandText(function_name, kwargs, a.texts,
                     EmulateItems(map, KwValues(kwargs), a.env))

\* DecoFigure._save_emulate_command: positional arguments, then the keyword
\* arguments as "k = v", joined by "," inside function_name(...).  kwargs is
\* the sequence of [k, v] in call order.
SaveEmulateCommand(map, function_name, args, kwargs, env) ==
    CommandAfterArgs(map, function_name, kwargs, EmulateItems(map, args, env))

-----------------------------------------------------------------------------
(* Bounds *)

\* objects (figures, axes, artists) that may exist
MaxNodes == 4
\* calls made from outside in one behaviour of Spec
MaxOps == 3

Nodes == 1..MaxNodes

-----------------------------------------------------------------------------
(* Identity registry: DecoFigure.artist_map and the walks that fill it *)

Relations == {"axes", "lines", "patches", "collections", "images", "texts"}

NoLists == [r \in Relations |-> <<>>]

\* DecoFigure.childs_tree: the child lists walked, by exact type of the object
ChildsTree(cls) ==
    CASE cls = "DecoFigure" -> <<"axes">>
      [] cls = "Axes" -> <<"lines", "patches", "collections", "images", "texts">>
      [] OTHER -> <<>>

\* f"{header}.{child_list_name}[{i}]"
ChildHeader(header, rel, i) == header \o "." \o rel \o "[" \o ToString(i) \o "]"

\* f"figs[{self._fig_id}]"
RootHeader(id) == "figs[" \o ToString(id) \o "]"

\* The part of the state a registration works on: one figure's artist_map, and
\* the shims and markers on the objects
Reg(map, lay, dec, by) == [map |-> map, layers |-> lay, decorated |-> dec, deco_by |-> by]

\* wrapping that looks neither at the marker nor at _deco_original
DecorateAgain(reg, f, obj) ==
    [reg EXCEPT !.layers[obj] = @ + 1,
                !.deco_by[obj] = IF reg.layers[obj] = 0 THEN f ELSE @,
                !.decorated = @ \cup {obj}]

\* DecoFigure._decorate_methods: nothing when the marker is there; else every
\* routine that is not excluded and has no _deco_original gets one shim, and
\* the marker is set
DecorateMethods(reg, f, obj) ==
    IF obj \in reg.decorated THEN reg
    ELSE [reg EXCEPT !.layers[obj] = IF @ = 0 THEN 1 ELSE @,
                     !.deco_by[obj] = IF reg.layers[obj] = 0 THEN f ELSE @,
                     !.decorated = @ \cup {obj}]

\* The guard of _register_artists_recursive: id(obj) in self.artist_map
Known(map, obj) == obj \in DOMAIN map

\* self.artist_map[id(obj)] = header
Bind(map, obj, header) == [n \in DOMAIN map \cup {obj} |-> IF n = obj THEN header ELSE map[n]]

RECURSIVE RegisterArtistsRecursive(_, _, _, _, _)
RECURSIVE RegisterChildren(_, _, _, _, _, _, _)
RECURSIVE RegisterRelations(_, _, _, _, _, _)

\* for i, child in enumerate(child_list): register child under header.rel[i]
RegisterChildren(reg, g, f, header, rel, children, i) ==
    IF i > Len(children) THEN reg
    ELSE RegisterChildren(
            RegisterArtistsRecursive(reg, g, f, children[i],
                                     ChildHeader(header, rel, i - 1)),
            g, f, header, rel, children, i + 1)

\* for child_list_name in self.childs_tree[obj_type]
RegisterRelations(reg, g, f, obj, header, rels) ==
    IF rels = <<>> THEN reg
    ELSE RegisterRelations(
            RegisterChildren(reg, g, f, header, Head(rels), g.lists[obj][Head(rels)], 1),
            g, f, obj, header, Tail(rels))

\* registration without the guard on id(obj)
RegisterAlways(reg, g, f, obj, header) ==
    RegisterRelations(
        DecorateMethods([reg EXCEPT !.map = Bind(@, obj, header)], f, obj),
        g, f, obj, header, ChildsTree(g.kind[obj]))

\* DecoFigure._register_artists_recursive(obj, header); g is the object graph
\* [kind, lists] it walks
RegisterArtistsRecursive(reg, g, f, obj, header) ==
    IF Known(reg.map, obj) THEN reg
    ELSE RegisterRelations(
            DecorateMethods([reg EXCEPT !.map = Bind(@, obj, header)], f, obj),
            g, f, obj, header, ChildsTree(g.kind[obj]))

RECURSIVE ScanChildren(_, _, _, _, _, _, _)
RECURSIVE ScanRelations(_, _, _, _, _, _)

\* the inner loop of _scan_and_register_new_artists: only children whose id is
\* not in the map are registered
ScanChildren(reg, g, f, header, rel, children, i) ==
    IF i > Len(children) THEN reg
    ELSE ScanChildren(
            IF ~Known(reg.map, children[i])
                THEN RegisterArtistsRecursive(reg, g, f, children[i],
                                              ChildHeader(header, rel, i - 1))
                ELSE reg,
            g, f, header, rel, children, i + 1)

\* a rescan that looks into the first declared relation only
ScanFirstRelation(reg, g, f, obj, header, rels) ==
    IF rels = <<>> THEN reg
    ELSE ScanChildren(reg, g, f, header, Head(rels), g.lists[obj][Head(rels)], 1)

\* the outer loop of _scan_and_register_new_artists, over childs_tree[type(obj)]
ScanRelations(reg, g, f, obj, header, rels) ==
    IF rels = <<>> THEN reg
    ELSE ScanRelations(
            ScanChildren(reg, g, f, header, Head(rels), g.lists[obj][Head(rels)], 1),
            g, f, obj, header, Tail(rels))

\* a rescan that finds nothing
ScanNothing(reg, g, f, obj) == reg

\* DecoFigure._scan_and_register_new_artists(obj)
ScanAndRegisterNewArtists(reg, g, f, obj) ==
    IF ~Known(reg.map, obj) THEN reg
    ELSE ScanRelations(reg, g, f, obj, reg.map[obj], ChildsTree(g.kind[obj]))

RECURSIVE ScanForResult(_, _, _, _, _)
\* for item in self._safe_flatten(result): if isinstance(item, Artist):
\*     self._scan_and_register_new_artists(obj)
\* result holds the artists of the flattened result
ScanForResult(reg, g, f, obj, result) ==
    IF result = <<>> THEN reg
    ELSE ScanForResult(ScanAndRegisterNewArtists(reg, g, f, obj), g, f, obj, Tail(result))

-----------------------------------------------------------------------------
(* Interception: the exclusion policy and the shim *)

\* The alternatives of self.exclude that match any name they are a prefix of
\* (re.match anchors at the start only)
ExcludePrefixes ==
    {<<"g", "e", "t", "_">>,
     <<"s", "t", "a", "l", "e", "_", "c", "a", "l", "l", "b", "a", "c", "k">>,
     <<"d", "r", "a", "w">>,
     <<"a", "p", "p", "l", "y", "_", "a", "s", "p", "e", "c", "t">>,
     <<"A", "r", "t", "i", "s", "t", "L", "i", "s", "t">>,
     <<"s", "e", "t", "_", "i", "d">>,
     <<"_">>,
     <<"_", "_">>,
     <<"c", "l", "e", "a", "r">>,
     <<"c", "l", "f">>}

\* a policy whose sca alternative is not anchored at the end
ExcludedByPrefix(name) ==
    \E pre \in ExcludePrefixes \cup {<<"s", "c", "a">>} : StartsWith(name, pre)

\* The alternative sca$ matches the whole name only
ExcludeWhole == {<<"s", "c", "a">>}

\* self.exclude.match(name)
Excluded(name) ==
    \/ \E pre \in ExcludePrefixes : StartsWith(name, pre)
    \/ name \in ExcludeWhole

\* Names of the matplotlib operations the model calls, as characters
N_add_subplot == <<"a", "d", "d", "_", "s", "u", "b", "p", "l", "o", "t">>
N_colorbar == <<"c", "o", "l", "o", "r", "b", "a", "r">>
N_imshow == <<"i", "m", "s", "h", "o", "w">>
N_add_image == <<"a", "d", "d", "_", "i", "m", "a", "g", "e">>
N_annotate == <<"a", "n", "n", "o", "t", "a", "t", "e">>
N_twinx == <<"t", "w", "i", "n", "x">>
N_remove == <<"r", "e", "m", "o", "v", "e">>
N_set_title == <<"s", "e", "t", "_", "t", "i", "t", "l", "e">>
N_clear == <<"c", "l", "e", "a", "r">>
N_get_title == <<"g", "e", "t", "_", "t", "i", "t", "l", "e">>
N_sca == <<"s", "c", "a">>
N_scatter == <<"s", "c", "a", "t", "t", "e", "r">>

\* A log entry is the command text with two history fields: the number of the
\* outside call it was recorded for, and 0 for that call's own command, 1 for
\* the command of a call the library made underneath it.
Entry(text, inv, depth) == [text |-> text, inv |-> inv, depth |-> depth]

NotLogged(env) == [exc |-> FALSE, env |-> env, text |-> "", logged |-> FALSE]

\* e.sess.add_log(entry)
WithLog(e, entry) == [e EXCEPT !.sess = AddLog(e.sess, entry)]

\* get_session().add_log(command), unless building the command raised
AppendCommand(c, inv, depth) ==
    IF c.exc THEN [exc |-> TRUE, env |-> c.env, text |-> "", logged |-> FALSE]
    ELSE [exc |-> FALSE, env |-> WithLog(GetSession(c.env), Entry(c.text, inv, depth)),
          text |-> c.text, logged |-> TRUE]

Call(name, args, kwargs) == [name |-> name, args |-> args, kwargs |-> kwargs]

NoCall == Call(<<>>, <<>>, <<>>)

\* header = self._header(obj); if header: command = ...; add_log(command)
LogCommand(reg, env, obj, call, inv, depth) ==
    IF ~Known(reg.map, obj) THEN NotLogged(env)
    ELSE AppendCommand(SaveEmulateCommand(reg.map, reg.map[obj] \o "." \o Join(call.name),
                                          call.args, call.kwargs, env),
                       inv, depth)

\* a policy that admits every caller
ShouldLogAlways(origin, caller) == TRUE

\* The logging decision of decorate: always when the figure was made
\* interactively, else only when the caller's file is the script's
ShouldLog(origin, caller) == origin = "interactive" \/ caller = origin

\* A run is what a shim leaves behind: registry, env, whether an exception is
\* leaving it, the number of commands logged for the call and the last of them
Run(reg, env, exc, n, text) == [reg |-> reg, env |-> env, exc |-> exc, n |-> n, text |-> text]

\* the end of decorate: rescan obj, then once more per artist in the result;
\* an exception from the logging step leaves before that
AfterLog(g, f, obj, result, below, log) ==
    IF log.exc THEN Run(below.reg, log.env, TRUE, below.n, below.text)
    ELSE Run(ScanForResult(ScanAndRegisterNewArtists(below.reg, g, f, obj),
                           g, f, obj, result),
             log.env, FALSE,
             below.n + (IF log.logged THEN 1 ELSE 0),
             IF log.logged THEN log.text ELSE below.text)

\* a shim that rescans the target before it builds the command
AfterFnRescanFirst(g, f, origin, obj, call, who, inv, depth, result, below) ==
    IF below.exc THEN below
    ELSE AfterLog(g, f, obj, result, below,
                  IF ShouldLog(origin, who)
                      THEN LogCommand(ScanAndRegisterNewArtists(below.reg, g, f, obj),
                                      below.env, obj, call, inv, depth)
                      ELSE NotLogged(below.env))

\* decorate after result = fn(...) returned below: the logging decision for
\* the caller who, then the rest
AfterFn(g, f, origin, obj, call, who, inv, depth, result, below) ==
    IF below.exc THEN below
    ELSE AfterLog(g, f, obj, result, below,
                  IF ShouldLog(origin, who)
                      THEN LogCommand(below.reg, below.env, obj, call, inv, depth)
                      ELSE NotLogged(below.env))

RECURSIVE Decorate(_, _, _, _, _, _, _, _, _, _, _, _, _)
\* decorate(*args, **kwargs) of the level-th shim on obj.name.  The original
\* operation has already changed the object graph to g.  A shim above the
\* first has the shim below it as its fn and calls it from core.py.
Decorate(level, top, reg, env, g, f, origin, obj, call, caller, inv, depth, result) ==
    IF level = 0 THEN Run(reg, env, FALSE, 0, "")
    ELSE AfterFn(g, f, origin, obj, call,
                 IF level = top THEN caller ELSE "core.py",
                 inv, depth, result,
                 Decorate(level - 1, top, reg, env, g, f, origin, obj, call, caller,
                          inv, depth, result))

-----------------------------------------------------------------------------
(* The wrapped library.  An operation of matplotlib is known to the model   *)
(* by its name and by what it does to the object graph:                     *)
(*   effect  "add"     a new object of class cls is appended to the         *)
(*                     target's list rel                                   *)
(*           "sibling" a new object of class cls is appended to the list    *)
(*                     rel of the target's parent (twinx)                   *)
(*           "remove"  the target leaves its parent's list                  *)
(*           "clear"   the target's lists are emptied                       *)
(*           "none"    the graph is unchanged                               *)
(*   inner   the public operation of the target the library calls          *)
(*           underneath with the new object as argument (imshow calls      *)
(*           add_image), <<>> if none                                      *)
(*   returns "new" the new object, "other" an artist held in no child      *)
(*           list (the Text of set_title), "none" no artist                *)

Op(name, effect, rel, cls, inner, returns) ==
    [name |-> name, effect |-> effect, rel |-> rel, cls |-> cls, inner |-> inner,
     returns |-> returns]

FigureOps ==
    {Op(N_add_subplot, "add", "axes", "Axes", <<>>, "new"),
     Op(N_colorbar, "add", "axes", "Axes", <<>>, "none"),
     Op(N_sca, "none", "", "", <<>>, "none"),
     Op(N_clear, "clear", "", "", <<>>, "none")}

AxesOps ==
    {Op(N_imshow, "add", "images", "AxesImage", N_add_image, "new"),
     Op(N_annotate, "add", "texts", "Annotation", <<>>, "new"),
     Op(N_twinx, "sibling", "axes", "Axes", <<>>, "new"),
     Op(N_scatter, "add", "collections", "PathCollection", <<>>, "new"),
     Op(N_set_title, "none", "", "", <<>>, "other"),
     Op(N_get_title, "none", "", "", <<>>, "none"),
     Op(N_remove, "remove", "", "", <<>>, "none"),
     Op(N_clear, "clear", "", "", <<>>, "none")}

ArtistOps ==
    {Op(N_remove, "remove", "", "", <<>>, "none")}

OpsOn(cls) ==
    CASE cls = "DecoFigure" -> FigureOps
      [] cls = "Axes" -> AxesOps
      [] OTHER -> ArtistOps

Used(k) == {n \in Nodes : k[n] # ""}

\* the number the next object gets
Fresh(k) == Cardinality(Used(k)) + 1

Without(seq, n) == SelectSeq(seq, LAMBDA x : x # n)

Parents(l, n) == {p \in Nodes : \E r \in Relations : \E i \in 1..Len(l[p][r]) : l[p][r][i] = n}

\* result = fn(*args, **kwargs): the object graph after the operation
Apply(g, n, op) ==
    LET new == Fresh(g.kind)
    IN CASE op.effect = "add" ->
                [kind |-> [g.kind EXCEPT ![new] = op.cls],
                 lists |-> [g.lists EXCEPT ![n][op.rel] = Append(@, new)]]
         [] op.effect = "sibling" ->
                [kind |-> [g.kind EXCEPT ![new] = op.cls],
                 lists |-> [p \in Nodes |->
                              IF p \in Parents(g.lists, n)
                                  THEN [g.lists[p] EXCEPT ![op.rel] = Append(@, new)]
                                  ELSE g.lists[p]]]
         [] op.effect = "remove" ->
                [kind |-> g.kind,
                 lists |-> [p \in Nodes |-> [r \in Relations |-> Without(g.lists[p][r], n)]]]
         [] op.effect = "clear" ->
                [kind |-> g.kind, lists |-> [g.lists EXCEPT ![n] = NoLists]]
         [] OTHER -> g

Makes(op) == op.effect \in {"add", "sibling"}

\* what the library needs to run the operation
CanApply(g, n, op) ==
    /\ Makes(op) => Fresh(g.kind) <= MaxNodes
    /\ op.effect \in {"sibling", "remove"} => Parents(g.lists, n) # {}

\* the artists of the flattened result
ResultOf(g, op) ==
    CASE op.returns = "new" -> <<Fresh(g.kind)>>
      [] op.returns = "other" -> <<0>>
      [] OTHER -> <<>>

\* history: the step just taken.  exc names where an exception left the call:
\* "operation" (the wrapped routine raised), "logging" (the shim raised while
\* recording), "" (the call returned)
Last(act, obj, call, inv, caller, admitted, n, text, exc, made) ==
    [act |-> act, obj |-> obj, call |-> call, inv |-> inv, caller |-> caller,
     admitted |-> admitted, n |-> n, text |-> text, exc |-> exc, made |-> made]

Birth(how, by, inv, tracked) == [how |-> how, by |-> by, inv |-> inv, tracked |-> tracked]

Unborn == Birth("", 0, 0, FALSE)

Graph == [kind |-> kind, lists |-> lists]

\* The library's call underneath, then the shims of the call itself
Shims(n, op, args, kwargs, caller, f, g, inv, made, under) ==
    IF under.exc THEN under
    ELSE Decorate(layers[n], layers[n], under.reg, under.env, g, f, call_from[f], n,
                  Call(op.name, args, kwargs), caller, inv, 0,
                  ResultOf(Graph, op))

\* The call the library makes underneath the operation, through the same
\* shims, with the new object as its argument and its result
Underneath(n, op, f, g, inv, made) ==
    IF op.inner = <<>>
        THEN Run(Reg(artist_map[f], layers, decorated, deco_by),
                 Env(session, warns, nextSid, issued), FALSE, 0, "")
        ELSE Decorate(layers[n], layers[n], Reg(artist_map[f], layers, decorated, deco_by),
                      Env(session, warns, nextSid, issued), g, f, call_from[f], n,
                      Call(op.inner, <<ArtistV(op.cls, made)>>, <<>>),
                      "library", inv, 1, <<made>>)

\* A call obj.name(*args, **kwargs) made by caller, on an object whose
\* operation name carries shims.  raises: the original operation raises, which
\* leaves decorate at its first line.
Invoke(n, op, args, kwargs, caller, raises, limit) ==
    /\ ops < limit
    /\ kind[n] # "" /\ layers[n] >= 1
    /\ op \in OpsOn(kind[n]) /\ ~Excluded(op.name)
    /\ CanApply(Graph, n, op)
    /\ ops' = ops + 1
    /\ IF raises
         THEN /\ UNCHANGED <<kind, lists, artist_map, layers, decorated, deco_by,
                            session, warns, nextSid, issued, born>>
              /\ last' = Last("invoke", n, Call(op.name, args, kwargs), ops + 1, caller,
                              FALSE, 0, "", "operation", 0)
         ELSE \E f \in {deco_by[n]} : \E g \in {Apply(Graph, n, op)} :
              \E made \in {IF Makes(op) THEN Fresh(kind) ELSE 0} :
              \E run \in {Shims(n, op, args, kwargs, caller, f, g, ops + 1, made,
                                Underneath(n, op, f, g, ops + 1, made))} :
              /\ kind' = g.kind
              /\ lists' = g.lists
              /\ artist_map' = [artist_map EXCEPT ![f] = run.reg.map]
              /\ layers' = run.reg.layers
              /\ decorated' = run.reg.decorated
              /\ deco_by' = run.reg.deco_by
              /\ session' = run.env.sess
              /\ warns' = run.env.warns
              /\ nextSid' = run.env.nextSid
              /\ issued' = run.env.issued
              /\ born' = IF made = 0 THEN born
                         ELSE [born EXCEPT ![made] =
                                 Birth(op.effect, n, ops + 1, Known(artist_map[f], n))]
              /\ last' = Last("invoke", n, Call(op.name, args, kwargs), ops + 1, caller,
                              ShouldLog(call_from[f], caller), run.n, run.text,
                              IF run.exc THEN "logging" ELSE "", made)
    /\ UNCHANGED <<figures, fig_id, call_from, projects, active, default_project, rewraps>>
    /\ UNCHANGED shelf

\* A call the shims do not see: the name is excluded, or the object was never
\* decorated.  Only the library acts.
Bypass(n, op, limit) ==
    LET g == Apply(Graph, n, op)
        made == IF Makes(op) THEN Fresh(kind) ELSE 0
    IN /\ ops < limit
       /\ kind[n] # ""
       /\ op \in OpsOn(kind[n])
       /\ Excluded(op.name) \/ layers[n] = 0
       /\ CanApply(Graph, n, op)
       /\ ops' = ops + 1
       /\ kind' = g.kind
       /\ lists' = g.lists
       /\ born' = IF made = 0 THEN born
                  ELSE [born EXCEPT ![made] = Birth(op.effect, n, ops + 1, FALSE)]
       /\ last' = Last("bypass", n, Call(op.name, <<>>, <<>>), ops + 1, "script",
                       FALSE, 0, "", "", made)
       /\ UNCHANGED <<figures, fig_id, call_from, artist_map, layers, decorated, deco_by,
                      session, projects, active, default_project, warns, nextSid, issued, rewraps>>
       /\ UNCHANGED shelf

\* f"extra[{n}]": the header a direct registration is given in the model
ExtraHeader(n) == "extra[" \o ToString(n) \o "]"

\* fig._register_artists_recursive(obj, header) called directly
Register(f, n, limit) ==
    LET reg == RegisterArtistsRecursive(Reg(artist_map[f], layers, decorated, deco_by),
                                        Graph, f, n, ExtraHeader(n))
    IN /\ ops < limit
       /\ f \in figures /\ kind[n] # ""
       /\ ops' = ops + 1
       /\ artist_map' = [artist_map EXCEPT ![f] = reg.map]
       /\ layers' = reg.layers
       /\ decorated' = reg.decorated
       /\ deco_by' = reg.deco_by
       /\ last' = Last("register", n, NoCall, ops + 1, "script", FALSE, 0, "", "", 0)
       /\ UNCHANGED <<kind, lists, figures, fig_id, call_from, session, projects, active,
                      default_project, warns, nextSid, issued, born, rewraps>>
       /\ UNCHANGED shelf

\* fig._decorate_methods(obj) called directly
Wrap(f, n, limit) ==
    LET reg == DecorateMethods(Reg(artist_map[f], layers, decorated, deco_by), f, n)
    IN /\ ops < limit
       /\ f \in figures /\ kind[n] # ""
       /\ ops' = ops + 1
       /\ layers' = reg.layers
       /\ decorated' = reg.decorated
       /\ deco_by' = reg.deco_by
       /\ rewraps' = [rewraps EXCEPT ![n] = @ + 1]
       /\ last' = Last("wrap", n, NoCall, ops + 1, "script", FALSE, 0, "", "", 0)
       /\ UNCHANGED <<kind, lists, figures, fig_id, call_from, artist_map, session,
                      projects, active, default_project, warns, nextSid, issued, born>>
       /\ UNCHANGED shelf

\* core.reset_session(): if _session: _session.cleanup(); then a new
\* JPLSession takes its place.  An exception leaving cleanup leaves the old
\* session where it is.
ResetSession(limit) ==
    /\ ops < limit
    /\ ops' = ops + 1
    /\ \E rmfails \in BOOLEAN :
       \E c \in {IF session.exists THEN Cleanup(session, rmfails)
                 ELSE [sess |-> session, warned |-> FALSE, exc |-> FALSE]} :
          /\ session' = IF c.exc THEN c.sess ELSE NewSession(nextSid)
          /\ nextSid' = IF c.exc THEN nextSid ELSE nextSid + 1
          /\ warns' = IF c.warned THEN warns + 1 ELSE warns
          /\ last' = Last("reset", 0, NoCall, ops + 1, "script", FALSE, 0,
                          IF c.warned THEN "warning" ELSE "",
                          IF c.exc THEN "cleanup" ELSE "", 0)
    /\ UNCHANGED <<kind, lists, figures, fig_id, call_from, artist_map, layers, decorated,
                   deco_by, projects, active, default_project, issued, born, rewraps>>
    /\ UNCHANGED shelf

-----------------------------------------------------------------------------
(* Spec: one figure constructed directly, DecoFigure(0), and the calls made  *)
(* on it and on what grows under it                                         *)

Origins == {"interactive", "script"}

Callers == {"script", "library"}

\* DecoFigure.__init__(fig_id): the figure registers and decorates itself
Init ==
    /\ kind = [n \in Nodes |-> IF n = 1 THEN "DecoFigure" ELSE ""]
    /\ lists = [n \in Nodes |-> NoLists]
    /\ figures = {1}
    /\ fig_id = [n \in Nodes |-> 0]
    /\ \E o \in Origins : call_from = [n \in Nodes |-> IF n = 1 THEN o ELSE ""]
    /\ artist_map = [n \in Nodes |-> IF n = 1 THEN (1 :> RootHeader(0)) ELSE <<>>]
    /\ layers = [n \in Nodes |-> IF n = 1 THEN 1 ELSE 0]
    /\ decorated = {1}
    /\ deco_by = [n \in Nodes |-> IF n = 1 THEN 1 ELSE 0]
    /\ session = NoSession
    /\ projects = <<>>
    /\ active = <<>>
    /\ default_project = 0
    /\ warns = 0
    /\ nextSid = 1
    /\ issued = <<>>
    /\ ops = 0
    /\ born = [n \in Nodes |-> IF n = 1 THEN Birth("init", 0, 0, FALSE) ELSE Unborn]
    /\ rewraps = [n \in Nodes |-> 0]
    /\ setup_logs = <<>>
    /\ blobs = <<>>
    /\ exports = <<>>
    /\ launches = <<>>
    /\ last = Last("init", 0, NoCall, 0, "script", FALSE, 0, "", "", 0)

\* the arguments the model passes to an operation: what its signature takes
ArgsFor(op) ==
    CASE op.name = N_colorbar ->
            {<<ArtistV(kind[m], m)>> : m \in {x \in Used(kind) : x \notin figures}}
      [] op.name = N_imshow -> {<<ArrayV("float64")>>, <<MaskedV("float64")>>}
      [] op.name = N_set_title -> {<<StrV(<<"T">>)>>}
      [] OTHER -> {<<>>}

Next ==
    \/ \E n \in Nodes : \E op \in OpsOn(kind[n]) : \E args \in ArgsFor(op) :
         \E caller \in Callers : \E raises \in BOOLEAN :
            Invoke(n, op, args, <<>>, caller, raises, MaxOps)
    \/ \E n \in Nodes : \E op \in OpsOn(kind[n]) : Bypass(n, op, MaxOps)
    \/ \E n \in Nodes : Register(1, n, MaxOps)
    \/ \E n \in Nodes : Wrap(1, n, MaxOps)
    \/ ResetSession(MaxOps)

Spec == Init /\ [][Next]_vars

\* SpecCalls: the same figure, reached by intercepted calls only
MaxCalls == 4

NextCalls ==
    \E n \in Nodes : \E op \in OpsOn(kind[n]) : \E args \in ArgsFor(op) :
        \E caller \in Callers : \E raises \in BOOLEAN :
            Invoke(n, op, args, <<>>, caller, raises, MaxCalls)

SpecCalls == Init /\ [][NextCalls]_vars

-----------------------------------------------------------------------------
(* SpecSer: the figure gets one subplot, whose annotate is then called with   *)
(* arguments of every kind the serializer tells apart                        *)

\* calls made from outside in one behaviour of SpecSer
MaxSerOps == 3

Kw(k, v) == [k |-> k, v |-> v]

N_color == <<"c", "o", "l", "o", "r">>
N_shrink == <<"s", "h", "r", "i", "n", "k">>
N_arrowprops == <<"a", "r", "r", "o", "w", "p", "r", "o", "p", "s">>

S_red == StrV(<<"r", "e", "d">>)
S_hi == StrV(<<"h", "i">>)

\* instances of user-defined classes: Foo has object.__repr__, Bar a __repr__
\* of its own, Baz a __repr__ that raises
FooV == CustomV("Foo", 9, <<>>, "")
BarV == CustomV("Bar", 8, <<"B", "a", "r", "(", ")">>, "repr_custom")
BazV == CustomV("Baz", 7, <<>>, "repr_raises")

\* an artist that is in no child list the registry walks
LegendV == ArtistV("Legend", 0)

ColorShrink == <<Kw(N_color, S_red), Kw(N_shrink, FloatV(5))>>
ShrinkColor == <<Kw(N_shrink, FloatV(5)), Kw(N_color, S_red)>>

SerCalls ==
    {Call(N_annotate, <<S_hi>>, ColorShrink),
     Call(N_annotate, <<>>, ColorShrink),
     Call(N_annotate, <<S_hi, TupleV(<<FloatV(50), IntV(1)>>)>>, ShrinkColor),
     Call(N_annotate, <<FooV>>, <<>>),
     Call(N_annotate, <<BarV>>, <<>>),
     Call(N_annotate, <<BazV>>, <<>>),
     Call(N_annotate, <<BazV, IntV(7)>>, <<>>),
     Call(N_annotate, <<ArrayV("object")>>, <<>>),
     Call(N_annotate, <<MaskedV("object")>>, <<>>),
     Call(N_annotate, <<ArrayV("float64"), MaskedV("float64")>>, <<>>),
     Call(N_annotate, <<SeriesV(<<"s">>, "datetime"), FrameV>>, <<>>),
     Call(N_annotate, <<SeriesV(<<>>, "category")>>, <<>>),
     Call(N_annotate, <<SeriesV(<<>>, "")>>, <<>>),
     Call(N_annotate, <<DatetimeIndexV, CategoricalV>>, <<>>),
     Call(N_annotate, <<DateV(1), DatetimeV(2), TimestampV(3)>>, <<>>),
     Call(N_annotate, <<ListV(<<IntV(1), BazV, ArrayV("float64")>>)>>, <<>>),
     Call(N_annotate, <<DictV(<<KV(StrV(<<"k">>), ListV(<<BoolV(TRUE), NoneV>>))>>)>>, <<>>),
     Call(N_annotate, <<TupleV(<<IntV(-1)>>)>>, <<>>),
     Call(N_annotate, <<ArtistV("Axes", 2)>>, <<>>),
     Call(N_annotate, <<LegendV>>, <<>>),
     Call(N_annotate, <<StrV(<<"i", "t", "'", "s">>)>>, <<>>),
     Call(N_annotate, <<StrV(<<"a", "\n", "b">>)>>, <<>>),
     Call(N_annotate, <<S_hi>>,
          <<Kw(N_arrowprops, DictV(<<KV(StrV(<<"o">>), BazV)>>))>>)}

OpNamed(cls, name) == CHOOSE op \in OpsOn(cls) : op.name = name

NextSer ==
    \/ Invoke(1, OpNamed("DecoFigure", N_add_subplot), <<>>, <<>>, "script", FALSE,
              MaxSerOps)
    \/ \E n \in Nodes : \E c \in SerCalls :
          /\ kind[n] = "Axes"
          /\ Invoke(n, OpNamed("Axes", N_annotate), c.args, c.kwargs, "script", FALSE,
                    MaxSerOps)
    \/ ResetSession(MaxSerOps)

SpecSer == Init /\ [][NextSer]_vars

-----------------------------------------------------------------------------
(* SpecProj: the package after import, projects made by Project(), their     *)
(* figures and the calls on them                                            *)

\* calls made from outside in one behaviour of SpecProj
MaxProjOps == 5
\* projects alive at once
MaxProjects == 3

\* a Project: its id, its own JPLSession and that session's figures list
ProjectRec(id, sess, figs) == [id |-> id, sess |-> sess, figures |-> figs]

\* Project.__init__: a JPLSession of its own, id = len(_active_projects), then
\* the project joins _active_projects.  The session's setup_logs and blobs,
\* which __init__.py reads and core.py's JPLSession does not define, start
\* empty.
NewProject(limit) ==
    /\ ops < limit
    /\ Len(projects) < MaxProjects
    /\ ops' = ops + 1
    /\ projects' = Append(projects, ProjectRec(Len(active), NewSession(nextSid), <<>>))
    /\ active' = Append(active, Len(projects) + 1)
    /\ setup_logs' = Append(setup_logs, <<>>)
    /\ blobs' = Append(blobs, {})
    /\ nextSid' = nextSid + 1
    /\ last' = Last("project", 0, NoCall, ops + 1, "script", FALSE, 0, "", "", 0)
    /\ UNCHANGED <<kind, lists, figures, fig_id, call_from, artist_map, layers, decorated,
                   deco_by, session, default_project, warns, issued, born, rewraps,
                   exports, launches>>

\* the command Project.figure writes before it constructs the figure
ClearCommand(fig_idx) == "figs[" \o ToString(fig_idx) \o "].clear()"

\* session.add_setup_log("add_figure()"): the setup section grows by a command
AddSetupLog(logs, command) == Append(logs, command)

\* the setup log of a project after Project.figure asked for figure fig_idx
SetupAfterFigure(logs, fig_idx) ==
    IF fig_idx > 0 THEN AddSetupLog(logs, "add_figure()") ELSE logs

\* Project.figure(1) as it runs against core.py.  For fig_idx > 0 add_figure()
\* goes to the setup log; the clear command is logged in the project's session
\* and DecoFigure(self.session, fig_id=fig_idx) then raises TypeError:
\* DecoFigure.__init__(self, fig_id, *args, **kwargs) is given fig_id twice.
\* No figure is made and session.figures stays as it is.
ProjectFigure(p, limit) ==
    /\ ops < limit
    /\ p \in 1..Len(projects)
    /\ ops' = ops + 1
    /\ \E fig_idx \in {Len(projects[p].figures)} :
          /\ setup_logs' = [setup_logs EXCEPT ![p] = SetupAfterFigure(@, fig_idx)]
          /\ projects' = [projects EXCEPT ![p].sess =
                             AddLog(@, Entry(ClearCommand(fig_idx), ops + 1, 0))]
          /\ last' = Last("figure", p, NoCall, ops + 1, "script", FALSE, 0,
                          ClearCommand(fig_idx), "TypeError", 0)
    /\ UNCHANGED <<kind, lists, figures, fig_id, call_from, artist_map, layers, decorated,
                   deco_by, session, active, default_project, warns, nextSid, issued, born,
                   rewraps, blobs, exports, launches>>

\* fig = DecoFigure(fig_idx), the call core.py's signature takes, and
\* session.figures.append(fig) on the project's session: the figure registers
\* and decorates itself as figs[fig_idx]
NewFigure(p, origin, limit) ==
    /\ ops < limit
    /\ p \in 1..Len(projects)
    /\ Fresh(kind) <= MaxNodes
    /\ \A f \in figures : call_from[f] = origin
    /\ ops' = ops + 1
    /\ \E new \in {Fresh(kind)} : \E idx \in {Len(projects[p].figures)} :
       \E g \in {[kind |-> [kind EXCEPT ![new] = "DecoFigure"], lists |-> lists]} :
       \E reg \in {RegisterArtistsRecursive(Reg(<<>>, layers, decorated, deco_by), g,
                                            new, new, RootHeader(idx))} :
          /\ kind' = g.kind
          /\ figures' = figures \cup {new}
          /\ fig_id' = [fig_id EXCEPT ![new] = idx]
          /\ call_from' = [call_from EXCEPT ![new] = origin]
          /\ artist_map' = [artist_map EXCEPT ![new] = reg.map]
          /\ layers' = reg.layers
          /\ decorated' = reg.decorated
          /\ deco_by' = reg.deco_by
          /\ born' = [born EXCEPT ![new] = Birth("init", 0, ops + 1, FALSE)]
          /\ projects' = [projects EXCEPT ![p].figures = Append(@, new)]
          /\ last' = Last("new_figure", new, NoCall, ops + 1, "script", FALSE, 0, "", "",
                          new)
    /\ UNCHANGED <<lists, session, active, default_project, warns, nextSid, issued, rewraps>>
    /\ UNCHANGED shelf

\* What a call of the Project layer works on and leaves behind: the projects,
\* the files exported, the viewers started, the warnings, and the exception
\* that is leaving ("" if none)
World(pr, ex, la, w, exc) ==
    [projects |-> pr, exports |-> ex, launches |-> la, warns |-> w, exc |-> exc]

Here == World(projects, exports, launches, warns, "")

\* "\n".join(self.session.logs): the commands of the main section, in order
MainSection(sess) == [i \in 1..Len(sess.logs) |-> sess.logs[i].text]

\* the text of LOADER_SCRIPT, taken as one line
LoaderScript == "LOADER_SCRIPT"

\* a descriptor whose first section is the recorded operations
CellsMainFirst(setup, main) ==
    <<[code |-> main, description |-> "JPL3 Generated Operations"],
      [code |-> <<LoaderScript>> \o setup, description |-> "JPL3 Setup & Initialization"]>>

\* cells of notebook.json; the code of a cell is held as its lines:
\* LOADER_SCRIPT + "\n" + "\n".join(setup_logs), and "\n".join(logs)
Cells(setup, main) ==
    <<[code |-> <<LoaderScript>> \o setup, description |-> "JPL3 Setup & Initialization"],
      [code |-> main, description |-> "JPL3 Generated Operations"]>>

\* the members of the zip file: notebook.json, and clipboard/data.npz if the
\* file is in the clipboard directory, where np.savez_compressed has put it
Members(files) ==
    <<"notebook.json">> \o
        (IF "data.npz" \in files THEN <<"clipboard/data.npz">> ELSE <<>>)

\* filename as Project.save opens it: ".jem3" is appended unless it ends so
Jem3Name(base, ext) == IF ext = ".jem3" THEN base \o ext ELSE base \o ext \o ".jem3"

\* the .jem3 file: notebook.json with the setup and the main section, and
\* clipboard/data.npz with one entry per key of session.blobs.  inv is history:
\* the call that wrote the file.
ExportOf(w, p, name, inv) ==
    [proj |-> p, id |-> w.projects[p].id, name |-> name,
     setup |-> setup_logs[p], main |-> MainSection(w.projects[p].sess),
     entries |-> blobs[p], inv |-> inv,
     cells |-> Cells(setup_logs[p], MainSection(w.projects[p].sess)),
     members |-> Members(w.projects[p].sess.files \cup {"data.npz"})]

\* step 4 of Project.save: plt.close on every figure, session.cleanup()
SaveCleanup(w, p, c) ==
    [w EXCEPT !.projects[p].sess = c.sess,
              !.warns = IF c.warned THEN @ + 1 ELSE @,
              !.exc = IF c.exc THEN "cleanup" ELSE @]

\* an export that consumes the main log
SaveDraining(w, p, name, cleanup, fails, rmfails, inv) ==
    IF w.exc # "" THEN w
    ELSE IF ~w.projects[p].sess.dir THEN [w EXCEPT !.exc = "FileNotFoundError"]
    ELSE [w EXCEPT !.projects[p].sess.files = @ \cup {"data.npz"},
                   !.projects[p].sess.logs = <<>>,
                   !.exports = Append(@, ExportOf(w, p, name, inv))]

\* Project.save(filename, cleanup): data.npz is written into the session's
\* clipboard_dir (raises when cleanup has removed it), notebook.json next to
\* it, then the zip file at the destination (fails: it cannot be written);
\* with cleanup the session is cleaned up afterwards.  Nothing is done when an
\* exception is already leaving the caller's loop.
Save(w, p, name, cleanup, fails, rmfails, inv) ==
    IF w.exc # "" THEN w
    ELSE IF ~w.projects[p].sess.dir THEN [w EXCEPT !.exc = "FileNotFoundError"]
    ELSE IF fails
        THEN [w EXCEPT !.projects[p].sess.files = @ \cup {"data.npz"}, !.exc = "OSError"]
    ELSE IF cleanup
        THEN SaveCleanup([w EXCEPT !.projects[p].sess.files = @ \cup {"data.npz"},
                                   !.exports = Append(@, ExportOf(w, p, name, inv))],
                         p, Cleanup(w.projects[p].sess, rmfails))
    ELSE [w EXCEPT !.projects[p].sess.files = @ \cup {"data.npz"},
                   !.exports = Append(@, ExportOf(w, p, name, inv))]

\* the name tempfile.mkstemp gives: a new one every time
PreviewName(id, k) == "jpl3_preview_p" \o ToString(id) \o "_" \o ToString(k) \o ".jem3"

\* the rest of Project.show when save has returned: the viewer is looked for
\* and started on the file, or FileNotFoundError / OSError is raised
Launch(w, p, name, found, inv) ==
    IF w.exc # "" THEN w
    ELSE IF ~found THEN [w EXCEPT !.exc = "FileNotFoundError"]
    ELSE [w EXCEPT !.launches = Append(@, [proj |-> p, name |-> name, inv |-> inv])]

\* a show that starts the viewer whatever became of the export
LaunchAnyway(w, p, fails, found, inv) ==
    IF w.exc # "" THEN w
    ELSE [Save(w, p, PreviewName(w.projects[p].id, Len(w.exports) + 1), FALSE, fails,
               FALSE, inv)
            EXCEPT !.launches = Append(@, [proj |-> p,
                        name |-> PreviewName(w.projects[p].id, Len(w.exports) + 1),
                        inv |-> inv])]

\* Project.show: save(temp_path, cleanup=False) inside try; an exception is
\* printed and raised again; subprocess.Popen comes after the save
Show(w, p, fails, found, inv) ==
    IF w.exc # "" THEN w
    ELSE Launch(Save(w, p, PreviewName(w.projects[p].id, Len(w.exports) + 1), FALSE,
                     fails, FALSE, inv),
                p, PreviewName(w.projects[p].id, Len(w.exports) + 1), found, inv)

\* {base}_{proj.id}{ext}, ext ".jem3" when the filename has none
TargetName(base, ext, id) == base \o "_" \o ToString(id) \o (IF ext = "" THEN ".jem3" ELSE ext)

RECURSIVE SaveAll(_, _, _, _, _, _, _)
\* for proj in _active_projects: proj.save(target_filename, cleanup=cleanup);
\* failAt: the project of the list whose file cannot be written (0: none)
SaveAll(w, act, i, cleanup, failAt, rmfails, inv) ==
    IF i > Len(act) THEN w
    ELSE SaveAll(Save(w, act[i], Jem3Name(TargetName("out", "", w.projects[act[i]].id), ""),
                      cleanup, failAt = i, rmfails, inv),
                 act, i + 1, cleanup, failAt, rmfails, inv)

RECURSIVE ShowAll(_, _, _, _, _, _)
\* for proj in _active_projects: proj.show()
ShowAll(w, act, i, failAt, found, inv) ==
    IF i > Len(act) THEN w
    ELSE ShowAll(Show(w, act[i], failAt = i, found, inv), act, i + 1, failAt, found, inv)

\* what a call of the Project layer leaves in the state
Leaves(w, act, name, inv) ==
    /\ projects' = w.projects
    /\ exports' = w.exports
    /\ launches' = w.launches
    /\ warns' = w.warns
    /\ last' = Last(act, 0, NoCall, inv, "script", FALSE, 0, name, w.exc, 0)
    /\ UNCHANGED <<kind, lists, figures, fig_id, call_from, artist_map, layers, decorated,
                   deco_by, session, default_project, nextSid, issued, born, rewraps,
                   setup_logs, blobs>>

\* p.save(filename, cleanup)
ProjectSave(p, cleanup, fails, rmfails, limit) ==
    /\ ops < limit
    /\ p \in 1..Len(projects)
    /\ ops' = ops + 1
    /\ UNCHANGED active
    /\ Leaves(Save(Here, p, Jem3Name("out", ""), cleanup, fails, rmfails, ops + 1),
              IF cleanup THEN "save_cleanup" ELSE "save", Jem3Name("out", ""), ops + 1)

\* p.show()
ProjectShow(p, fails, found, limit) ==
    /\ ops < limit
    /\ p \in 1..Len(projects)
    /\ ops' = ops + 1
    /\ UNCHANGED active
    /\ Leaves(Show(Here, p, fails, found, ops + 1), "show", "", ops + 1)

\* jpl3.save(filename, cleanup): a warning is printed when no project is
\* active; else every active project is saved to its own file, and with
\* cleanup the list is cleared afterwards
ModuleSave(cleanup, failAt, rmfails, limit) ==
    /\ ops < limit
    /\ failAt \in 0..Len(active)
    /\ ops' = ops + 1
    /\ \E w \in {SaveAll(Here, active, 1, cleanup, failAt, rmfails, ops + 1)} :
          /\ active' = IF cleanup /\ w.exc = "" THEN <<>> ELSE active
          /\ Leaves(w, IF cleanup THEN "module_save_cleanup" ELSE "module_save", "out",
                    ops + 1)

\* jpl3.show(): a warning is printed when no project is active; else every
\* active project is shown
ModuleShow(failAt, found, limit) ==
    /\ ops < limit
    /\ failAt \in 0..Len(active)
    /\ ops' = ops + 1
    /\ UNCHANGED active
    /\ Leaves(ShowAll(Here, active, 1, failAt, found, ops + 1), "module_show", "", ops + 1)

\* jpl3.figure(1): the default project, if there is one, leaves
\* _active_projects and its session is cleaned up; a new Project becomes the
\* default project and its figure() is called, which logs the clear command
\* and raises at the construction of the figure
ModuleFigure(limit) ==
    /\ ops < limit
    /\ Len(projects) < MaxProjects
    /\ ops' = ops + 1
    /\ \E rmfails \in BOOLEAN :
       \E act \in {IF default_project = 0 THEN active ELSE Without(active, default_project)} :
       \E c \in {IF default_project = 0
                    THEN [sess |-> NoSession, warned |-> FALSE, exc |-> FALSE]
                    ELSE Cleanup(projects[default_project].sess, rmfails)} :
       \E old \in {IF default_project = 0 THEN projects
                   ELSE [projects EXCEPT ![default_project].sess = c.sess]} :
          /\ projects' = Append(old, ProjectRec(Len(act),
                                    AddLog(NewSession(nextSid),
                                           Entry(ClearCommand(0), ops + 1, 0)),
                                    <<>>))
          /\ active' = Append(act, Len(projects) + 1)
          /\ default_project' = Len(projects) + 1
          /\ setup_logs' = Append(setup_logs, <<>>)
          /\ blobs' = Append(blobs, {})
          /\ nextSid' = nextSid + 1
          /\ warns' = IF c.warned THEN warns + 1 ELSE warns
          /\ last' = Last("module_figure", Len(projects) + 1, NoCall, ops + 1, "script",
                          FALSE, 0, ClearCommand(0), "TypeError", 0)
    /\ UNCHANGED <<kind, lists, figures, fig_id, call_from, artist_map, layers, decorated,
                   deco_by, session, issued, born, rewraps, exports, launches>>

\* the package after import: no figure, no session, no project
InitProj ==
    /\ kind = [n \in Nodes |-> ""]
    /\ lists = [n \in Nodes |-> NoLists]
    /\ figures = {}
    /\ fig_id = [n \in Nodes |-> 0]
    /\ call_from = [n \in Nodes |-> ""]
    /\ artist_map = [n \in Nodes |-> <<>>]
    /\ layers = [n \in Nodes |-> 0]
    /\ decorated = {}
    /\ deco_by = [n \in Nodes |-> 0]
    /\ session = NoSession
    /\ projects = <<>>
    /\ active = <<>>
    /\ default_project = 0
    /\ warns = 0
    /\ nextSid = 1
    /\ issued = <<>>
    /\ ops = 0
    /\ born = [n \in Nodes |-> Unborn]
    /\ rewraps = [n \in Nodes |-> 0]
    /\ setup_logs = <<>>
    /\ blobs = <<>>
    /\ exports = <<>>
    /\ launches = <<>>
    /\ last = Last("init", 0, NoCall, 0, "script", FALSE, 0, "", "", 0)

NextProj ==
    \/ NewProject(MaxProjOps)
    \/ ModuleFigure(MaxProjOps)
    \/ \E p \in 1..MaxProjects : \E cleanup, fails, rmfails \in BOOLEAN :
          ProjectSave(p, cleanup, fails, rmfails, MaxProjOps)
    \/ \E p \in 1..MaxProjects : \E fails, found \in BOOLEAN :
          ProjectShow(p, fails, found, MaxProjOps)
    \/ \E cleanup, rmfails \in BOOLEAN : \E failAt \in 0..MaxProjects :
          ModuleSave(cleanup, failAt, rmfails, MaxProjOps)
    \/ \E found \in BOOLEAN : \E failAt \in 0..MaxProjects :
          ModuleShow(failAt, found, MaxProjOps)
    \/ \E p \in 1..MaxProjects : ProjectFigure(p, MaxProjOps)
    \/ \E p \in 1..MaxProjects : \E origin \in Origins : NewFigure(p, origin, MaxProjOps)
    \/ \E n \in Nodes : \E op \in OpsOn(kind[n]) : \E args \in ArgsFor(op) :
         \E caller \in Callers :
            Invoke(n, op, args, <<>>, caller, FALSE, MaxProjOps)

SpecProj == InitProj /\ [][NextProj]_vars

-----------------------------------------------------------------------------
(* Claims *)

\* C1: in every reachable state of a figure's registry no two distinct
\* registered identities have the same path.
C1_PathsUnique ==
    \A f \in figures : \A a, b \in DOMAIN artist_map[f] :
        a # b => artist_map[f][a] # artist_map[f][b]

\* C2: the commands in the main log stand in the order of the calls that made
\* them, and the command of the call just made is the last one.
C2_OrderPreserved ==
    /\ \A i, j \in 1..Len(session.logs) :
          i < j => session.logs[i].inv <= session.logs[j].inv
    /\ (last.act = "invoke" /\ last.n >= 1) =>
          /\ session.logs[Len(session.logs)].text = last.text
          /\ session.logs[Len(session.logs)].inv = last.inv
          /\ \A i \in 1..(Len(session.logs) - 1) : session.logs[i].inv <= last.inv

\* a later command of the log names an object that an earlier logged call made
C2_Witness ==
    /\ last.act = "invoke" /\ last.n >= 1 /\ Len(session.logs) >= 3
    /\ \E i \in 1..Len(last.call.args) :
          /\ last.call.args[i].flag = "artist"
          /\ born[last.call.args[i].num].how = "add"
          /\ \E j \in 1..(Len(session.logs) - 1) :
                session.logs[j].inv = born[last.call.args[i].num].inv

OwnEntries(k) ==
    {i \in 1..Len(session.logs) : session.logs[i].inv = k /\ session.logs[i].depth = 0}

\* C3: wrapping a node again changes nothing: no operation ever carries two
\* shims, and a call on a tracked node that the logging policy admits puts its
\* command into the main log exactly once.
C3_LoggedOnce ==
    /\ \A n \in Nodes : layers[n] <= 1
    /\ \A k \in 1..ops : Cardinality(OwnEntries(k)) <= 1
    /\ (/\ last.act = "invoke" /\ last.exc = "" /\ last.admitted
        /\ Known(artist_map[deco_by[last.obj]], last.obj)) =>
          /\ last.n = 1
          /\ Cardinality(OwnEntries(last.inv)) = 1

\* a node was wrapped a second time and a call on it was then logged
C3_Witness ==
    /\ last.act = "invoke" /\ last.n = 1
    /\ rewraps[last.obj] >= 1
    /\ Cardinality(OwnEntries(last.inv)) = 1

\* C4: a binding of the registry never changes and is never removed, and
\* registering a node that is already registered changes nothing at all: its
\* children are not walked again.
C4_BindingPermanent ==
    [][/\ \A f \in figures : \A n \in DOMAIN artist_map[f] :
            n \in DOMAIN artist_map'[f] /\ artist_map'[f][n] = artist_map[f][n]
       /\ (last'.act = "register" /\ Known(artist_map[1], last'.obj)) =>
            (artist_map' = artist_map /\ layers' = layers /\ decorated' = decorated)
      ]_vars

\* a registered node with a child the registry does not know was registered
\* again
C4_Witness ==
    /\ last.act = "register"
    /\ Known(artist_map[1], last.obj)
    /\ artist_map[1][last.obj] # ExtraHeader(last.obj)
    /\ \E r \in Relations : \E i \in 1..Len(lists[last.obj][r]) :
          ~Known(artist_map[1], lists[last.obj][r][i])

\* the object made by an earlier intercepted call on a tracked node, in one of
\* that node's child lists
MadeEarlier(x) ==
    /\ x.flag = "artist" /\ x.num \in Nodes
    /\ born[x.num].how = "add" /\ born[x.num].tracked
    /\ born[x.num].inv < last.inv

Fails(x) ==
    Dispatch(artist_map[1], x, GetSession(Env(session, warns, nextSid, issued))).exc

\* the command of the call just made is the newest of the main log
Recorded ==
    /\ last.n = 1
    /\ Len(session.logs) >= 1
    /\ session.logs[Len(session.logs)] = Entry(last.text, last.inv, 0)

HeaderOf(n) == artist_map[deco_by[n]][n]

\* the text of a call with one argument
OneArg(text) == HeaderOf(last.obj) \o "." \o Join(last.call.name) \o "(" \o text \o ")"

Logged1(x) ==
    /\ last.act = "invoke" /\ last.admitted
    /\ Known(artist_map[deco_by[last.obj]], last.obj)
    /\ last.call.args = <<x>> /\ last.call.kwargs = <<>>

\* C6: no exception leaves the shim because of an argument: whatever the
\* arguments, an admitted call on a tracked node that returned has its command
\* in the main log, and an argument whose dispatch raises stands in it as the
\* placeholder text, with a warning.
C6_NeverPropagates ==
    /\ last.exc # "logging"
    /\ (/\ last.act = "invoke" /\ last.exc = "" /\ last.admitted
        /\ Known(artist_map[deco_by[last.obj]], last.obj)) => Recorded
    /\ \A x \in {BazV, ArrayV("object"), MaskedV("object")} :
          Logged1(x) => (Fails(x) /\ last.text = OneArg(Placeholder(x)) /\ warns >= 1)
    /\ (last.act = "invoke" /\ last.admitted
            /\ last.call.args = <<ListV(<<IntV(1), BazV, ArrayV("float64")>>)>>) =>
          \E k \in 0..(3 * MaxSerOps) :
              last.text = OneArg("[1, " \o Placeholder(BazV) \o ", np.load(clipboard(\"data_"
                                    \o ToString(k) \o ".npy\"))]")

\* a call whose argument raises in the dispatch was recorded
C6_Witness ==
    /\ Logged1(BazV) /\ Recorded /\ warns >= 1
    /\ last.text = "figs[0].axes[0].annotate(\"<unserializable object: Baz>\")"

Unrecognized(x) ==
    /\ x.flag # "artist"
    /\ x.cls \notin {"int", "float", "bool", "NoneType", "str", "list", "tuple", "dict"}
    /\ \A T \in {"ndarray", "Series", "DataFrame", "DatetimeIndex", "Categorical", "date"} :
          ~IsInstance(x, T)

Customs == {FooV, BarV, BazV}

\* C7 as stated: a value of an unrecognized custom type is recorded as the
\* placeholder that names its type.
C7_AlwaysPlaceholder ==
    \A x \in Customs :
        (Unrecognized(x) /\ Logged1(x)) =>
            (Recorded /\ last.text = OneArg(Placeholder(x)))

\* C7, amended: a value of an unrecognized custom type is recorded as its
\* repr(); only when repr() raises is it recorded as the placeholder that names
\* its type.  Neither raises, and the command is recorded with that text.
C7_ReprThenPlaceholder ==
    /\ \A x \in Customs : Unrecognized(x)
    /\ Logged1(FooV) =>
          (Recorded /\ last.text = OneArg("<__main__.Foo object at 0x9>"))
    /\ Logged1(BarV) => (Recorded /\ last.text = OneArg("Bar()"))
    /\ Logged1(BazV) =>
          (Recorded /\ last.text = OneArg("\"<unserializable object: Baz>\""))

\* both kinds of custom value were recorded in one log
C7_Witness ==
    /\ Logged1(BazV) /\ Recorded
    /\ \E i \in 1..Len(session.logs) :
          session.logs[i].text = "figs[0].axes[0].annotate(<__main__.Foo object at 0x9>)"

Annotated(args, kwargs) ==
    /\ last.act = "invoke" /\ last.admitted
    /\ Known(artist_map[deco_by[last.obj]], last.obj)
    /\ HeaderOf(last.obj) = "figs[0].axes[0]"
    /\ last.call = Call(N_annotate, args, kwargs)

\* C8 as stated: keywords are rendered name=value, the str value in double
\* quotes.
C8_TightKeywords ==
    /\ Annotated(<<S_hi>>, ColorShrink) =>
          last.text = "figs[0].axes[0].annotate('hi',color=\"red\",shrink=0.05)"
    /\ Annotated(<<>>, ColorShrink) =>
          last.text = "figs[0].axes[0].annotate(color=\"red\",shrink=0.05)"

\* C8, amended: the command is <path>.<operation>(<args>), the positional
\* arguments first in call order, then the keywords in call order, joined by
\* ","; a keyword is rendered name = value and a str as Python's repr writes it.
C8_LiteralFidelity ==
    /\ Annotated(<<S_hi>>, ColorShrink) =>
          last.text = "figs[0].axes[0].annotate('hi',color = 'red',shrink = 0.05)"
    /\ Annotated(<<>>, ColorShrink) =>
          last.text = "figs[0].axes[0].annotate(color = 'red',shrink = 0.05)"
    /\ Annotated(<<S_hi, TupleV(<<FloatV(50), IntV(1)>>)>>, ShrinkColor) =>
          last.text = "figs[0].axes[0].annotate('hi',(0.5, 1),shrink = 0.05,color = 'red')"

\* annotate(..., color="red", shrink=0.05) was recorded on figs[0].axes[0]
C8_Witness ==
    /\ Annotated(<<S_hi>>, ColorShrink) /\ Recorded
    /\ last.text = "figs[0].axes[0].annotate('hi',color = 'red',shrink = 0.05)"

\* C9: of two keys a session gave out, the later has the greater counter and
\* another name; a key is data_<counter><ext>, and every stored blob lies under
\* a key the session gave out.
C9_KeysFresh ==
    /\ \A i, j \in 1..Len(issued) :
          (i < j /\ issued[i].sid = issued[j].sid) =>
              (issued[i].counter < issued[j].counter /\ issued[i].key # issued[j].key)
    /\ \A i \in 1..Len(issued) :
          \E ext \in {".npy", ".csv"} :
              issued[i].key = "data_" \o ToString(issued[i].counter) \o ext
    /\ \A name \in session.files :
          \E i \in 1..Len(issued) : issued[i].sid = session.sid /\ issued[i].key = name
    /\ session.data_counter =
          Cardinality({i \in 1..Len(issued) : issued[i].sid = session.sid})

\* one session gave out keys for arrays and for tables, in two calls
C9_Witness ==
    /\ last.act = "invoke"
    /\ \E i, j, k \in 1..Len(issued) :
          /\ i < j /\ j < k
          /\ issued[i].sid = session.sid /\ issued[j].sid = session.sid
          /\ issued[k].sid = session.sid
          /\ issued[i].key = "data_0.npy" /\ issued[k].key = "data_3.csv"
    /\ "data_3.csv" \in session.files

\* the project whose session holds the figure n belongs to, 0 if none
Owner(n) ==
    IF \E p \in 1..Len(projects) : \E i \in 1..Len(projects[p].figures) :
            projects[p].figures[i] = deco_by[n]
        THEN CHOOSE p \in 1..Len(projects) : \E i \in 1..Len(projects[p].figures) :
                projects[p].figures[i] = deco_by[n]
        ELSE 0

HasEntryOf(logs, k) == \E i \in 1..Len(logs) : logs[i].inv = k /\ logs[i].depth = 0

\* C10: with two projects alive, the command of an admitted call on a figure
\* of a project, or on what grows under that figure, is in the log of that
\* project's session and in no other session's log, and every blob key was
\* given out by the session of a project.
C10_SessionIsolation ==
    /\ (/\ Len(projects) >= 2
        /\ last.act = "invoke" /\ last.exc = "" /\ last.admitted
        /\ Known(artist_map[deco_by[last.obj]], last.obj)
        /\ Owner(last.obj) # 0) =>
          /\ HasEntryOf(projects[Owner(last.obj)].sess.logs, last.inv)
          /\ \A q \in 1..Len(projects) :
                q # Owner(last.obj) => ~HasEntryOf(projects[q].sess.logs, last.inv)
          /\ ~HasEntryOf(session.logs, last.inv)
    /\ \A i \in 1..Len(issued) :
          \E p \in 1..Len(projects) : projects[p].sess.sid = issued[i].sid

\* the newest exported file
Newest == exports[Len(exports)]

\* a Project.save that returned, called by the program itself
Saved == last.act \in {"save", "save_cleanup"} /\ last.exc = ""

Read(pr, p) ==
    [logs |-> pr[p].sess.logs, data_counter |-> pr[p].sess.data_counter,
     figures |-> pr[p].figures]

SameSections(e, f) == e.setup = f.setup /\ e.main = f.main /\ e.entries = f.entries

C13_CleanupReleases ==
    \A p \in 1..Len(projects) :
        projects[p].sess.cleaned =>
            /\ projects[p].sess.logs = <<>>
            /\ setup_logs[p] = <<>>
            /\ blobs[p] = {}

\* C14: reset_session never raises, with no session yet, right after another
\* reset or with commands recorded: a new empty session takes the place of the
\* old one in every case, and a temporary directory that cannot be removed
\* costs one warning and nothing else.
C14_ResetNeverRaises ==
    [][last'.act = "reset" =>
          /\ last'.exc = ""
          /\ session' = NewSession(nextSid)
          /\ session'.sid # session.sid
          /\ warns' = IF last'.text = "warning" THEN warns + 1 ELSE warns
          /\ ~session.exists => last'.text = ""
      ]_vars

\* the third session of the process was put in place by a reset whose removal
\* of the temporary directory failed
C14_Witness ==
    /\ last.act = "reset" /\ last.text = "warning" /\ last.exc = ""
    /\ session.sid >= 3 /\ session.logs = <<>> /\ session.dir

\* C15: the ids of the projects in the active list are pairwise distinct, and
\* no two files written by one call of the global save have the same name.
C15_ActiveIdsDistinct ==
    /\ \A i, j \in 1..Len(active) :
          i # j => projects[active[i]].id # projects[active[j]].id
    /\ \A i, j \in 1..Len(exports) :
          (i # j /\ exports[i].inv = exports[j].inv) => exports[i].name # exports[j].name

C17_FigureProtocol ==
    [][last'.act = "figure" =>
          /\ last'.exc = ""
          /\ Len(projects'[last'.obj].figures) = Len(projects[last'.obj].figures) + 1
          /\ last'.text = ClearCommand(Len(projects[last'.obj].figures))
          /\ Len(setup_logs'[last'.obj]) = Len(projects[last'.obj].figures)
      ]_vars

InnerEntries(k) ==
    {i \in 1..Len(session.logs) : session.logs[i].inv = k /\ session.logs[i].depth = 1}

\* C19: a call on a registered node that returned is logged when its figure
\* was made interactively; when the figure was made by a script it is logged
\* exactly if the caller's file is that script, and the call the library makes
\* underneath it is not logged.
C19_LoggingPolicy ==
    (/\ last.act = "invoke" /\ last.exc = ""
     /\ Known(artist_map[deco_by[last.obj]], last.obj)) =>
        /\ call_from[deco_by[last.obj]] = "interactive" => OwnEntries(last.inv) # {}
        /\ call_from[deco_by[last.obj]] # "interactive" =>
              /\ OwnEntries(last.inv) # {} <=> last.caller = call_from[deco_by[last.obj]]
              /\ InnerEntries(last.inv) = {}

\* imshow was called from library code on an axes of a figure made by a
\* script: neither the call nor the add_image underneath was logged
C19_Witness ==
    /\ last.act = "invoke" /\ last.exc = "" /\ last.call.name = N_imshow
    /\ Known(artist_map[deco_by[last.obj]], last.obj)
    /\ call_from[deco_by[last.obj]] = "script" /\ last.caller = "library"
    /\ OwnEntries(last.inv) = {} /\ InnerEntries(last.inv) = {}

\* the items in the child lists of n (every list of a node is a declared
\* relation of its class)
ChildItems(l, n) == {c \in Nodes : n \in Parents(l, c)}

RECURSIVE Subtree(_, _, _)
\* what is reached from the nodes S through child lists in at most k steps
Subtree(l, S, k) ==
    IF k = 0 THEN S
    ELSE Subtree(l, S \cup UNION {ChildItems(l, n) : n \in S}, k - 1)

C21_ResultRegistered ==
    (/\ last.act = "invoke" /\ last.exc = "" /\ last.made # 0
     /\ Known(artist_map[deco_by[last.obj]], last.obj)
     /\ OpNamed(kind[last.obj], last.call.name).returns = "new") =>
        Known(artist_map[deco_by[last.obj]], last.made)

\* the entries that invocation k left in a log at the given depth
EntriesOf(logs, k, depth) ==
    {i \in 1..Len(logs) : logs[i].inv = k /\ logs[i].depth = depth}

\* the text the command of add_image would have if the new image were
\* addressed by its path
ByPath(map, obj, made) == map[obj] \o "." \o Join(N_add_image) \o "(" \o map[made] \o ")"

\* C22: a call whose original operation raises ends with that exception and
\* leaves the session, the keys handed out, the setup log, the blob store, the
\* registry and the shims as they were.  A logged call that returns has
\* appended exactly one command of its own, as the newest entry of the main log
\* and after the commands of the calls made underneath it, and nothing to the
\* setup log; the command is built before the rescan, so an object the
\* operation has just made is not yet addressed by a path in it.
C22_ShimOrder ==
    [][last'.act = "invoke" =>
          /\ last'.exc = "operation" =>
                /\ session' = session /\ issued' = issued
                /\ setup_logs' = setup_logs /\ blobs' = blobs
                /\ artist_map' = artist_map /\ layers' = layers
                /\ decorated' = decorated
          /\ (last'.exc = "" /\ last'.n >= 1) =>
                /\ Cardinality(EntriesOf(session'.logs, last'.inv, 0)) = 1
                /\ session'.logs[Len(session'.logs)] = Entry(last'.text, last'.inv, 0)
                /\ Len(session'.logs) =
                      Len(session.logs) + 1
                          + Cardinality(EntriesOf(session'.logs, last'.inv, 1))
                /\ \A i \in 1..Len(session.logs) : session'.logs[i] = session.logs[i]
                /\ setup_logs' = setup_logs
                /\ \A i \in EntriesOf(session'.logs, last'.inv, 1) :
                      Known(artist_map'[deco_by[last'.obj]], last'.made) =>
                          session'.logs[i].text #
                              ByPath(artist_map'[deco_by[last'.obj]], last'.obj, last'.made)
      ]_vars

\* imshow on an axes of an interactive figure was logged after the add_image
\* it called underneath; the image is registered now and was not when the
\* command of add_image was built
C22_Witness ==
    /\ last.act = "invoke" /\ last.exc = "" /\ last.n = 1
    /\ last.call.name = N_imshow /\ last.made # 0
    /\ Cardinality(EntriesOf(session.logs, last.inv, 1)) = 1
    /\ Cardinality(EntriesOf(session.logs, last.inv, 0)) = 1
    /\ Known(artist_map[deco_by[last.obj]], last.made)
    /\ session.logs[Len(session.logs)].text = last.text

\* C23: the operations get_title, clear and sca of a node that carries shims
\* are called without a shim: the session, the setup log, the registry and the
\* shims stay as they were, also when the node has a child the registry does
\* not know.  Every other operation of such a node, scatter among them, is
\* called through its shim and is logged when the policy admits the caller.
C23_ExclusionPolicy ==
    [][/\ (last'.act = "bypass" /\ layers[last'.obj] >= 1) =>
            /\ last'.call.name \in {N_get_title, N_clear, N_sca}
            /\ session' = session /\ setup_logs' = setup_logs
            /\ artist_map' = artist_map /\ layers' = layers /\ decorated' = decorated
       /\ last'.act = "invoke" =>
            last'.call.name \notin {N_get_title, N_clear, N_sca}
       /\ (/\ last'.act = "invoke" /\ last'.call.name = N_scatter
           /\ last'.exc = "" /\ last'.admitted
           /\ Known(artist_map[deco_by[last'.obj]], last'.obj)) =>
            /\ Cardinality(EntriesOf(session'.logs, last'.inv, 0)) = 1
            /\ Known(artist_map'[deco_by[last'.obj]], last'.made)
      ]_vars

\* sca was called on the figure while the axes that twinx had put into its
\* list was not registered, and it is still not registered
C23_Witness ==
    /\ last.act = "bypass" /\ last.call.name = N_sca
    /\ layers[last.obj] >= 1 /\ Known(artist_map[deco_by[last.obj]], last.obj)
    /\ \E c \in ChildItems(lists, last.obj) : ~Known(artist_map[deco_by[last.obj]], c)

\* the keys handed out after the first n
KeysSince(all, n) == [i \in 1..(Len(all) - n) |-> all[n + i].key]

\* C24: a logged imshow of a masked array has taken exactly two new keys, the
\* data's and then the mask's, stored a file under each, and its command
\* rebuilds the masked array from two loader calls on these keys; a logged
\* imshow of a dense array has taken exactly one key and its command holds one
\* loader call on it.
C24_MaskedBeforeDense ==
    [][(/\ last'.act = "invoke" /\ last'.call.name = N_imshow
        /\ last'.exc = "" /\ last'.n = 1) =>
          /\ last'.call.args = <<MaskedV("float64")>> =>
                /\ Len(issued') = Len(issued) + 2
                /\ KeysSince(issued', Len(issued))[1] # KeysSince(issued', Len(issued))[2]
                /\ \A i \in 1..2 : KeysSince(issued', Len(issued))[i] \in session'.files
                /\ last'.text =
                      artist_map[deco_by[last'.obj]][last'.obj] \o ".imshow("
                          \o "np.ma.MaskedArray(data=np.load(clipboard(\""
                          \o KeysSince(issued', Len(issued))[1]
                          \o "\")), mask=np.load(clipboard(\""
                          \o KeysSince(issued', Len(issued))[2] \o "\"))))"
          /\ last'.call.args = <<ArrayV("float64")>> =>
                /\ Len(issued') = Len(issued) + 1
                /\ KeysSince(issued', Len(issued))[1] \in session'.files
                /\ last'.text =
                      artist_map[deco_by[last'.obj]][last'.obj] \o ".imshow("
                          \o "np.load(clipboard(\""
                          \o KeysSince(issued', Len(issued))[1] \o "\")))"
      ]_vars

\* imshow of a masked array was logged after an earlier key had been handed
\* out: its data lies under data_1.npy and its mask under data_2.npy
C24_Witness ==
    /\ last.act = "invoke" /\ last.call.name = N_imshow /\ last.n = 1
    /\ last.call.args = <<MaskedV("float64")>>
    /\ Len(issued) = 3
    /\ issued[2].key = "data_1.npy" /\ issued[3].key = "data_2.npy"
    /\ {"data_1.npy", "data_2.npy"} \subseteq session.files

\* C25: in the command of annotate called with a date, a datetime and a pandas
\* Timestamp, the Timestamp stands as pd.Timestamp("<iso>") after the
\* constructor texts of the date and the datetime.
C25_TimestampIso ==
    Annotated(<<DateV(1), DatetimeV(2), TimestampV(3)>>, <<>>) =>
        last.text = "figs[0].axes[0].annotate(datetime.date(2025, 1, 1),"
                        \o "datetime.datetime(2025, 1, 2, 0, 0),"
                        \o "pd.Timestamp(\"2025-01-03T00:00:00\"))"

C27_PathIsPosition ==
    \A f \in figures : \A p \in Nodes : \A r \in Relations :
        \A i \in 1..Len(lists[p][r]) :
            (Known(artist_map[f], p) /\ Known(artist_map[f], lists[p][r][i])) =>
                artist_map[f][lists[p][r][i]] = ChildHeader(artist_map[f][p], r, i - 1)

====
